---- MODULE Spec2Model ----
(***************************************************************************)
(* The Neighborhood database (neighborhood_database.rs) and the gossip     *)
(* acceptor (gossip_acceptor.rs) of SubstratumNode as a state machine.     *)
(*                                                                         *)
(* Option<T> is a sequence of length at most one: None is <<>>, Some(x) is *)
(* <<x>>.  A Result is a record with an ok flag.  A Key is a natural       *)
(* number, the blank key Key::new(&[]) being BlankKey.  A HashMap is a     *)
(* function whose DOMAIN is its key set.                                   *)
(***************************************************************************)
EXTENDS Naturals, Sequences, FiniteSets

(***************************************************************************)
(* Bounds of the model.                                                    *)
(***************************************************************************)
MaxKey == 3
MaxIp == 2
MaxPort == 1
MaxVersion == 2
MaxNeighbors == 1
MaxOps == 2
MaxHops == 2
MaxPayload == 2
HunkBytes == 3
MaxHunks == 2
MaxRead == 6
MaxArrived == 6
MaxAttempts == 11

(***************************************************************************)
(* State: the three fields of the NeighborhoodDatabase; whether the owner  *)
(* of the database has panicked; the last call made on the database: its   *)
(* name and arguments (call), the database before it (pre), what it        *)
(* returned and the ERRORs it logged (ret); the build of the program:      *)
(* with overflow checks (a debug build, where an integer overflow panics)  *)
(* or without (a release build, where it wraps); the two mock nodes of a   *)
(* CORES exchange with the control stream between them (cores); and the    *)
(* start of a mock node: its wait for the container's control port         *)
(* (startup).                                                              *)
(***************************************************************************)
VARIABLES this_node, by_public_key, by_ip_addr, panicked, steps, call, pre, ret,
          overflow_checks, cores, startup

BlankKey == 0

(***************************************************************************)
(* NodeRecordInner::version is a u32: its values are 0..MaxVersion, the    *)
(* modulus of its arithmetic (2^32 in the source) is MaxVersion + 1.       *)
(***************************************************************************)
VersionModulus == MaxVersion + 1

Keys == BlankKey..MaxKey
IpAddrs == 1..MaxIp

None == <<>>
Some(x) == <<x>>
IsSome(o) == o # <<>>
Unwrap(o) == o[1]

Range(s) == {s[i] : i \in 1..Len(s)}

(***************************************************************************)
(* sub_lib::node_addr::NodeAddr: an IP address and its ports.              *)
(***************************************************************************)
NodeAddrs == [ip_addr : IpAddrs, ports : 1..MaxPort]

(***************************************************************************)
(* CryptDE::sign: the signature of `plain` under the private key of        *)
(* `signer`, a term that is equal to another only for the same signer and  *)
(* the same plain data.                                                    *)
(***************************************************************************)
Sign(signer, plain) == [signer |-> signer, plain |-> plain]

(***************************************************************************)
(* NodeRecordInner::generate_signature: serialization and SHA-1 digest are *)
(* injective here, so the digest of a record is the record itself.         *)
(***************************************************************************)
generate_signature(inner, signer) == Sign(signer, inner)

(***************************************************************************)
(* NodeSignatures::from                                                    *)
(***************************************************************************)
NodeSignaturesFrom(signer, inner) ==
    [complete |-> generate_signature(inner, signer),
     obscured |-> generate_signature([inner EXCEPT !.node_addr_opt = None], signer)]

(***************************************************************************)
(* NodeRecord::new                                                         *)
(***************************************************************************)
NodeRecordNew(public_key, node_addr_opt, is_bootstrap_node, signatures, version) ==
    [inner |-> [public_key |-> public_key,
                node_addr_opt |-> node_addr_opt,
                is_bootstrap_node |-> is_bootstrap_node,
                neighbors |-> <<>>,
                version |-> version],
     signatures |-> signatures]

(* set_node_addr that refuses only an address different from the stored one. *)
set_node_addr_accepting_same(node_record, node_addr) ==
    IF IsSome(node_record.inner.node_addr_opt)
       /\ node_record.inner.node_addr_opt # Some(node_addr)
    THEN [ok |-> FALSE,
          err |-> <<"NodeAddrAlreadySet", Unwrap(node_record.inner.node_addr_opt)>>,
          node_record |-> node_record]
    ELSE [ok |-> TRUE,
          err |-> <<>>,
          node_record |-> [node_record EXCEPT !.inner.node_addr_opt = Some(node_addr)]]

(* set_node_addr without the check for a stored address. *)
set_node_addr_overwriting(node_record, node_addr) ==
    [ok |-> TRUE,
     err |-> <<>>,
     node_record |-> [node_record EXCEPT !.inner.node_addr_opt = Some(node_addr)]]

(***************************************************************************)
(* NodeRecord::set_node_addr: Err(NodeAddrAlreadySet(old)) when an address *)
(* is stored, whatever the argument.                                       *)
(***************************************************************************)
set_node_addr(node_record, node_addr) ==
    IF IsSome(node_record.inner.node_addr_opt)
    THEN [ok |-> FALSE,
          err |-> <<"NodeAddrAlreadySet", Unwrap(node_record.inner.node_addr_opt)>>,
          node_record |-> node_record]
    ELSE [ok |-> TRUE,
          err |-> <<>>,
          node_record |-> [node_record EXCEPT !.inner.node_addr_opt = Some(node_addr)]]

unset_node_addr(node_record) ==
    [node_record EXCEPT !.inner.node_addr_opt = None]

(***************************************************************************)
(* NodeRecord::set_signatures: whether the stored signatures changed.      *)
(***************************************************************************)
set_signatures(node_record, signatures) ==
    IF node_record.signatures = Some(signatures)
    THEN [changed |-> FALSE, node_record |-> node_record]
    ELSE [changed |-> TRUE,
          node_record |-> [node_record EXCEPT !.signatures = Some(signatures)]]

(***************************************************************************)
(* NodeRecord::remove_neighbor: removes the first occurrence only.         *)
(***************************************************************************)
RemoveFirst(s, x) ==
    LET pos == {i \in 1..Len(s) : s[i] = x}
    IN  IF pos = {} THEN s
        ELSE LET index == CHOOSE i \in pos : \A j \in pos : i <= j
             IN  SubSeq(s, 1, index - 1) \o SubSeq(s, index + 1, Len(s))

record_remove_neighbor(node_record, public_key) ==
    [removed |-> public_key \in Range(node_record.inner.neighbors),
     node_record |-> [node_record EXCEPT
                        !.inner.neighbors = RemoveFirst(node_record.inner.neighbors, public_key)]]

record_has_neighbor(node_record, public_key) ==
    public_key \in Range(node_record.inner.neighbors)

sign(node_record, signer) ==
    [node_record EXCEPT !.signatures = Some(NodeSignaturesFrom(signer, node_record.inner))]

(***************************************************************************)
(* NodeRecord::increment_version: `self.inner.version += 1` on a u32.  At  *)
(* the largest value the addition overflows: a build with overflow checks  *)
(* panics, a build without them stores 0.                                  *)
(***************************************************************************)
increment_version(node_record) ==
    IF node_record.inner.version + 1 >= VersionModulus /\ overflow_checks
    THEN [panicked |-> TRUE, node_record |-> node_record]
    ELSE [panicked |-> FALSE,
          node_record |-> [node_record EXCEPT !.inner.version = (@ + 1) % VersionModulus]]

set_version(node_record, value) ==
    [node_record EXCEPT !.inner.version = value]

(***************************************************************************)
(* NeighborhoodDatabase: a record [this_node, by_public_key, by_ip_addr].  *)
(***************************************************************************)
MapInsert(m, k, v) == [x \in DOMAIN m \cup {k} |-> IF x = k THEN v ELSE m[x]]
MapRemove(m, k) == [x \in DOMAIN m \ {k} |-> m[x]]
EmptyMap == [x \in {} |-> x]

keys(db) == DOMAIN db.by_public_key

node_by_key(db, public_key) ==
    IF public_key \in DOMAIN db.by_public_key
    THEN Some(db.by_public_key[public_key]) ELSE None

node_by_ip(db, ip_addr) ==
    IF ip_addr \in DOMAIN db.by_ip_addr
    THEN node_by_key(db, db.by_ip_addr[ip_addr]) ELSE None

root(db) == db.by_public_key[db.this_node]

has_neighbor(db, from, to) ==
    IF from \in keys(db) THEN record_has_neighbor(db.by_public_key[from], to) ELSE FALSE

(* add_node that writes the IP index before it looks for the key. *)
add_node_indexing_first(db, node_record) ==
    LET indexed == [db EXCEPT
                      !.by_ip_addr =
                          IF IsSome(node_record.inner.node_addr_opt)
                          THEN MapInsert(@, Unwrap(node_record.inner.node_addr_opt).ip_addr,
                                         node_record.inner.public_key)
                          ELSE @]
    IN  IF node_record.inner.public_key \in keys(db)
        THEN [ok |-> FALSE,
              err |-> <<"NodeKeyCollision", node_record.inner.public_key>>,
              db |-> indexed]
        ELSE [ok |-> TRUE,
              err |-> <<>>,
              db |-> [indexed EXCEPT
                        !.by_public_key = MapInsert(@, node_record.inner.public_key, node_record)]]

(* add_node that stores the record only under the condition of the IP index. *)
add_node_only_with_addr(db, node_record) ==
    IF node_record.inner.public_key \in keys(db)
    THEN [ok |-> FALSE,
          err |-> <<"NodeKeyCollision", node_record.inner.public_key>>,
          db |-> db]
    ELSE [ok |-> TRUE,
          err |-> <<>>,
          db |-> IF IsSome(node_record.inner.node_addr_opt)
                 THEN [db EXCEPT
                         !.by_public_key = MapInsert(@, node_record.inner.public_key, node_record),
                         !.by_ip_addr = MapInsert(@, Unwrap(node_record.inner.node_addr_opt).ip_addr,
                                                   node_record.inner.public_key)]
                 ELSE db]

add_node(db, node_record) ==
    IF node_record.inner.public_key \in keys(db)
    THEN [ok |-> FALSE,
          err |-> <<"NodeKeyCollision", node_record.inner.public_key>>,
          db |-> db]
    ELSE [ok |-> TRUE,
          err |-> <<>>,
          db |-> [db EXCEPT
                    !.by_public_key = MapInsert(@, node_record.inner.public_key, node_record),
                    !.by_ip_addr =
                        IF IsSome(node_record.inner.node_addr_opt)
                        THEN MapInsert(@, Unwrap(node_record.inner.node_addr_opt).ip_addr,
                                       node_record.inner.public_key)
                        ELSE @]]

(* remove_neighbor that drops the root's edge to a key it does not know. *)
remove_neighbor_unlinking_unknown(db, node_key) ==
    LET ip_addr == IF node_key \in keys(db)
                   THEN db.by_public_key[node_key].inner.node_addr_opt ELSE None
        db1 == [db EXCEPT
                  !.by_public_key = [k \in DOMAIN @ |->
                                        IF k = node_key THEN unset_node_addr(@[k]) ELSE @[k]],
                  !.by_ip_addr = IF IsSome(ip_addr)
                                 THEN MapRemove(@, Unwrap(ip_addr).ip_addr)
                                 ELSE @]
        r == record_remove_neighbor(db1.by_public_key[db1.this_node], node_key)
        unlinked == [db1 EXCEPT !.by_public_key[db1.this_node] = r.node_record]
    IN  IF node_key \notin keys(db)
        THEN [ok |-> FALSE, value |-> FALSE,
              err |-> <<"could not remove nonexistent neighbor by public key", node_key>>,
              db |-> unlinked]
        ELSE [ok |-> TRUE, value |-> r.removed, err |-> <<>>, db |-> unlinked]

(* remove_neighbor that leaves the IP index as it was. *)
remove_neighbor_keeping_index(db, node_key) ==
    IF node_key \notin keys(db)
    THEN [ok |-> FALSE, value |-> FALSE,
          err |-> <<"could not remove nonexistent neighbor by public key", node_key>>,
          db |-> db]
    ELSE LET db1 == [db EXCEPT !.by_public_key[node_key] = unset_node_addr(@)]
             r == record_remove_neighbor(db1.by_public_key[db1.this_node], node_key)
         IN  [ok |-> TRUE,
              value |-> r.removed,
              err |-> <<>>,
              db |-> [db1 EXCEPT !.by_public_key[db1.this_node] = r.node_record]]

(* remove_neighbor that also drops the record of node_key. *)
remove_neighbor_dropping_record(db, node_key) ==
    IF node_key \notin keys(db)
    THEN [ok |-> FALSE, value |-> FALSE,
          err |-> <<"could not remove nonexistent neighbor by public key", node_key>>,
          db |-> db]
    ELSE LET ip_addr == db.by_public_key[node_key].inner.node_addr_opt
             r == record_remove_neighbor(db.by_public_key[db.this_node], node_key)
             db1 == [db EXCEPT
                       !.by_public_key[db.this_node] = r.node_record,
                       !.by_ip_addr = IF IsSome(ip_addr)
                                      THEN MapRemove(@, Unwrap(ip_addr).ip_addr)
                                      ELSE @]
         IN  [ok |-> TRUE,
              value |-> r.removed,
              err |-> <<>>,
              db |-> [db1 EXCEPT !.by_public_key = MapRemove(@, node_key)]]

(***************************************************************************)
(* NeighborhoodDatabase::remove_neighbor: clears the address of node_key,  *)
(* drops the index entry of its IP, and removes the edge from the root.    *)
(***************************************************************************)
remove_neighbor(db, node_key) ==
    IF node_key \notin keys(db)
    THEN [ok |-> FALSE, value |-> FALSE,
          err |-> <<"could not remove nonexistent neighbor by public key", node_key>>,
          db |-> db]
    ELSE LET ip_addr == db.by_public_key[node_key].inner.node_addr_opt
             db1 == [db EXCEPT
                       !.by_public_key[node_key] = unset_node_addr(@),
                       !.by_ip_addr = IF IsSome(ip_addr)
                                      THEN MapRemove(@, Unwrap(ip_addr).ip_addr)
                                      ELSE @]
             r == record_remove_neighbor(db1.by_public_key[db1.this_node], node_key)
         IN  [ok |-> TRUE,
              value |-> r.removed,
              err |-> <<>>,
              db |-> [db1 EXCEPT !.by_public_key[db1.this_node] = r.node_record]]

(* add_neighbor that looks for node_key before it looks for new_neighbor. *)
add_neighbor_checking_from_first(db, node_key, new_neighbor) ==
    IF node_key \notin keys(db)
    THEN [ok |-> FALSE, value |-> FALSE, err |-> <<"NodeKeyNotFound", node_key>>, db |-> db]
    ELSE IF new_neighbor \notin keys(db)
    THEN [ok |-> FALSE, value |-> FALSE, err |-> <<"NodeKeyNotFound", new_neighbor>>, db |-> db]
    ELSE IF has_neighbor(db, node_key, new_neighbor)
    THEN [ok |-> TRUE, value |-> FALSE, err |-> <<>>, db |-> db]
    ELSE [ok |-> TRUE, value |-> TRUE, err |-> <<>>,
          db |-> [db EXCEPT !.by_public_key[node_key].inner.neighbors = Append(@, new_neighbor)]]

(* add_neighbor that makes the edge in both directions. *)
add_neighbor_both_ways(db, node_key, new_neighbor) ==
    IF new_neighbor \notin keys(db)
    THEN [ok |-> FALSE, value |-> FALSE, err |-> <<"NodeKeyNotFound", new_neighbor>>, db |-> db]
    ELSE IF has_neighbor(db, node_key, new_neighbor)
    THEN [ok |-> TRUE, value |-> FALSE, err |-> <<>>, db |-> db]
    ELSE IF node_key \in keys(db)
    THEN [ok |-> TRUE, value |-> TRUE, err |-> <<>>,
          db |-> [db EXCEPT
                    !.by_public_key =
                        [k \in DOMAIN @ |->
                            IF k = node_key
                            THEN [@[k] EXCEPT !.inner.neighbors = Append(@, new_neighbor)]
                            ELSE IF k = new_neighbor
                            THEN [@[k] EXCEPT !.inner.neighbors = Append(@, node_key)]
                            ELSE @[k]]]]
    ELSE [ok |-> FALSE, value |-> FALSE, err |-> <<"NodeKeyNotFound", node_key>>, db |-> db]

(* add_neighbor that pushes the key of the node itself. *)
add_neighbor_pushing_self(db, node_key, new_neighbor) ==
    IF new_neighbor \notin keys(db)
    THEN [ok |-> FALSE, value |-> FALSE, err |-> <<"NodeKeyNotFound", new_neighbor>>, db |-> db]
    ELSE IF has_neighbor(db, node_key, new_neighbor)
    THEN [ok |-> TRUE, value |-> FALSE, err |-> <<>>, db |-> db]
    ELSE IF node_key \in keys(db)
    THEN [ok |-> TRUE, value |-> TRUE, err |-> <<>>,
          db |-> [db EXCEPT !.by_public_key[node_key].inner.neighbors = Append(@, node_key)]]
    ELSE [ok |-> FALSE, value |-> FALSE, err |-> <<"NodeKeyNotFound", node_key>>, db |-> db]

add_neighbor(db, node_key, new_neighbor) ==
    IF new_neighbor \notin keys(db)
    THEN [ok |-> FALSE, value |-> FALSE, err |-> <<"NodeKeyNotFound", new_neighbor>>, db |-> db]
    ELSE IF has_neighbor(db, node_key, new_neighbor)
    THEN [ok |-> TRUE, value |-> FALSE, err |-> <<>>, db |-> db]
    ELSE IF node_key \in keys(db)
    THEN [ok |-> TRUE, value |-> TRUE, err |-> <<>>,
          db |-> [db EXCEPT !.by_public_key[node_key].inner.neighbors = Append(@, new_neighbor)]]
    ELSE [ok |-> FALSE, value |-> FALSE, err |-> <<"NodeKeyNotFound", node_key>>, db |-> db]

(***************************************************************************)
(* NeighborhoodDatabase::new                                               *)
(***************************************************************************)
NeighborhoodDatabaseNew(public_key, node_addr, is_bootstrap_node) ==
    LET node_record ==
            sign(NodeRecordNew(public_key, Some(node_addr), is_bootstrap_node, None, 0),
                 public_key)
    IN  add_node([this_node |-> public_key,
                  by_public_key |-> EmptyMap,
                  by_ip_addr |-> EmptyMap],
                 node_record).db

(***************************************************************************)
(* gossip.rs: a GossipNodeRecord is [inner, signatures], its signatures    *)
(* not optional.  GossipNodeRecord::to_node_record keeps every field.      *)
(***************************************************************************)
to_node_record(gnr) ==
    [inner |-> gnr.inner, signatures |-> Some(gnr.signatures)]

(***************************************************************************)
(* GossipAcceptorReal::is_not_invalid, and the ERROR it logs for a record  *)
(* it rejects.                                                             *)
(***************************************************************************)
rejection(gnr) ==
    IF gnr.inner.public_key = BlankKey
    THEN <<"Rejecting GossipNodeRecord with blank public key">>
    ELSE IF BlankKey \in Range(gnr.inner.neighbors)
    THEN <<"Rejecting neighbor reference with blank public key">>
    ELSE <<"Gossip attempted to make node neighbor to itself: ignoring", gnr.inner.public_key>>

is_not_invalid(gnr) ==
    IF gnr.inner.public_key = BlankKey THEN FALSE
    ELSE IF BlankKey \in Range(gnr.inner.neighbors) THEN FALSE
    ELSE IF gnr.inner.public_key \in Range(gnr.inner.neighbors) THEN FALSE
    ELSE TRUE

(* The ERROR of update_node_addrs: the key, the IP stored and the IP gossiped. *)
ip_change_error(gnr, old_addr) ==
    <<"Gossip attempted to change IP address of node: ignoring",
      gnr.inner.public_key, old_addr.ip_addr, Unwrap(gnr.inner.node_addr_opt).ip_addr>>

(* update_node_addrs that marks a change also when the address is refused. *)
update_node_addrs_marking_refusal(gnr, node_record) ==
    IF IsSome(gnr.inner.node_addr_opt)
    THEN LET r == set_node_addr(node_record, Unwrap(gnr.inner.node_addr_opt))
         IN  [changed |-> TRUE, logged |-> ~r.ok, node_record |-> r.node_record,
              errors |-> IF r.ok THEN <<>> ELSE <<ip_change_error(gnr, r.err[2])>>]
    ELSE [changed |-> FALSE, logged |-> FALSE, node_record |-> node_record, errors |-> <<>>]

(***************************************************************************)
(* GossipAcceptorReal::update_node_addrs: the address of the record is set *)
(* through NodeRecord::set_node_addr; the database's by_ip_addr is not     *)
(* touched.  logged: the IP-change ERROR was written.                      *)
(***************************************************************************)
update_node_addrs(gnr, node_record) ==
    IF IsSome(gnr.inner.node_addr_opt)
    THEN LET r == set_node_addr(node_record, Unwrap(gnr.inner.node_addr_opt))
         IN  IF r.ok
             THEN [changed |-> TRUE, logged |-> FALSE, node_record |-> r.node_record,
                   errors |-> <<>>]
             ELSE [changed |-> FALSE, logged |-> TRUE, node_record |-> r.node_record,
                   errors |-> <<ip_change_error(gnr, r.err[2])>>]
    ELSE [changed |-> FALSE, logged |-> FALSE, node_record |-> node_record, errors |-> <<>>]

(***************************************************************************)
(* GossipAcceptorReal::update_neighbors: compared as sets, replaced as a   *)
(* list.                                                                   *)
(***************************************************************************)
update_neighbors(gnr, node_record) ==
    IF Range(gnr.inner.neighbors) = Range(node_record.inner.neighbors)
    THEN [changed |-> FALSE, node_record |-> node_record]
    ELSE [changed |-> TRUE,
          node_record |-> [node_record EXCEPT !.inner.neighbors = gnr.inner.neighbors]]

update_signatures(gnr, node_record) ==
    set_signatures(node_record, gnr.signatures)

(* update_version that keeps the stored version. *)
update_version_keeping(gnr, node_record) ==
    set_version(node_record, node_record.inner.version)

update_version(gnr, node_record) ==
    set_version(node_record, gnr.inner.version)

(* handle_node_record with the version gate open to an equal version. *)
handle_node_record_gate_open(acc, gnr) ==
    LET db == acc.db
        key == gnr.inner.public_key
    IN  IF key \in keys(db)
        THEN LET a == update_node_addrs(gnr, db.by_public_key[key])
             IN  IF a.node_record.inner.version <= gnr.inner.version
                 THEN LET v == update_version(gnr, a.node_record)
                          n == update_neighbors(gnr, v)
                          s == update_signatures(gnr, n.node_record)
                          stored == IF a.changed THEN v
                                    ELSE IF n.changed THEN n.node_record
                                    ELSE s.node_record
                      IN  [acc EXCEPT
                             !.db.by_public_key[key] = stored,
                             !.log = @ \o a.errors,
                             !.changed = a.changed \/ n.changed \/ s.changed \/ acc.changed]
                 ELSE [acc EXCEPT
                         !.db.by_public_key[key] = a.node_record,
                         !.log = @ \o a.errors,
                         !.changed = a.changed \/ acc.changed]
        ELSE LET r == add_node(db, to_node_record(gnr))
             IN  IF r.ok
                 THEN [acc EXCEPT !.db = r.db, !.changed = TRUE]
                 ELSE [acc EXCEPT !.panicked = TRUE]

(* handle_node_record with the address reconciled behind the version gate. *)
handle_node_record_addr_gated(acc, gnr) ==
    LET db == acc.db
        key == gnr.inner.public_key
    IN  IF key \in keys(db)
        THEN IF db.by_public_key[key].inner.version < gnr.inner.version
             THEN LET a == update_node_addrs(gnr, db.by_public_key[key])
                      v == update_version(gnr, a.node_record)
                      n == update_neighbors(gnr, v)
                      s == update_signatures(gnr, n.node_record)
                      stored == IF a.changed THEN v
                                ELSE IF n.changed THEN n.node_record
                                ELSE s.node_record
                  IN  [acc EXCEPT
                         !.db.by_public_key[key] = stored,
                         !.log = @ \o a.errors,
                         !.changed = a.changed \/ n.changed \/ s.changed \/ acc.changed]
             ELSE acc
        ELSE LET r == add_node(db, to_node_record(gnr))
             IN  IF r.ok
                 THEN [acc EXCEPT !.db = r.db, !.changed = TRUE]
                 ELSE [acc EXCEPT !.panicked = TRUE]

(* handle_node_record whose mark replaces the marks of the records before. *)
handle_node_record_forgetting_marks(acc, gnr) ==
    LET db == acc.db
        key == gnr.inner.public_key
    IN  IF key \in keys(db)
        THEN LET a == update_node_addrs(gnr, db.by_public_key[key])
             IN  IF a.node_record.inner.version < gnr.inner.version
                 THEN LET v == update_version(gnr, a.node_record)
                          n == update_neighbors(gnr, v)
                          s == update_signatures(gnr, n.node_record)
                          stored == IF a.changed THEN v
                                    ELSE IF n.changed THEN n.node_record
                                    ELSE s.node_record
                      IN  [acc EXCEPT
                             !.db.by_public_key[key] = stored,
                             !.log = @ \o a.errors,
                             !.changed = a.changed \/ n.changed \/ s.changed]
                 ELSE [acc EXCEPT
                         !.db.by_public_key[key] = a.node_record,
                         !.log = @ \o a.errors,
                         !.changed = a.changed]
        ELSE LET r == add_node(db, to_node_record(gnr))
             IN  IF r.ok
                 THEN [acc EXCEPT !.db = r.db, !.changed = TRUE]
                 ELSE [acc EXCEPT !.panicked = TRUE]

(* handle_node_record that takes the version of any record that differs. *)
handle_node_record_taking_any_version(acc, gnr) ==
    LET db == acc.db
        key == gnr.inner.public_key
    IN  IF key \in keys(db)
        THEN LET a == update_node_addrs(gnr, db.by_public_key[key])
             IN  IF a.node_record.inner.version # gnr.inner.version
                 THEN LET v == update_version(gnr, a.node_record)
                          n == update_neighbors(gnr, v)
                          s == update_signatures(gnr, n.node_record)
                          stored == IF a.changed THEN v
                                    ELSE IF n.changed THEN n.node_record
                                    ELSE s.node_record
                      IN  [acc EXCEPT
                             !.db.by_public_key[key] = stored,
                             !.log = @ \o a.errors,
                             !.changed = a.changed \/ n.changed \/ s.changed \/ acc.changed]
                 ELSE [acc EXCEPT
                         !.db.by_public_key[key] = a.node_record,
                         !.log = @ \o a.errors,
                         !.changed = a.changed \/ acc.changed]
        ELSE LET r == add_node(db, to_node_record(gnr))
             IN  IF r.ok
                 THEN [acc EXCEPT !.db = r.db, !.changed = TRUE]
                 ELSE [acc EXCEPT !.panicked = TRUE]

(* handle_node_record that does not admit a key the database lacks. *)
handle_node_record_skipping_unknown(acc, gnr) ==
    LET db == acc.db
        key == gnr.inner.public_key
    IN  IF key \in keys(db)
        THEN LET a == update_node_addrs(gnr, db.by_public_key[key])
             IN  IF a.node_record.inner.version < gnr.inner.version
                 THEN LET v == update_version(gnr, a.node_record)
                          n == update_neighbors(gnr, v)
                          s == update_signatures(gnr, n.node_record)
                          stored == IF a.changed THEN v
                                    ELSE IF n.changed THEN n.node_record
                                    ELSE s.node_record
                      IN  [acc EXCEPT
                             !.db.by_public_key[key] = stored,
                             !.log = @ \o a.errors,
                             !.changed = a.changed \/ n.changed \/ s.changed \/ acc.changed]
                 ELSE [acc EXCEPT
                         !.db.by_public_key[key] = a.node_record,
                         !.log = @ \o a.errors,
                         !.changed = a.changed \/ acc.changed]
        ELSE acc

(***************************************************************************)
(* The closure of handle_node_records for one record that passed the       *)
(* filter.  acc is [db, changed, panicked].  The || of the source does not *)
(* evaluate its right operand once the left one is true: update_neighbors  *)
(* runs only when no address was adopted, update_signatures only when in   *)
(* addition the neighbors were not replaced.                               *)
(***************************************************************************)
handle_node_record(acc, gnr) ==
    LET db == acc.db
        key == gnr.inner.public_key
    IN  IF key \in keys(db)
        THEN LET a == update_node_addrs(gnr, db.by_public_key[key])
             IN  IF a.node_record.inner.version < gnr.inner.version
                 THEN LET v == update_version(gnr, a.node_record)
                          n == update_neighbors(gnr, v)
                          s == update_signatures(gnr, n.node_record)
                          stored == IF a.changed THEN v
                                    ELSE IF n.changed THEN n.node_record
                                    ELSE s.node_record
                      IN  [acc EXCEPT
                             !.db.by_public_key[key] = stored,
                             !.log = @ \o a.errors,
                             !.changed = a.changed \/ n.changed \/ s.changed \/ acc.changed]
                 ELSE [acc EXCEPT
                         !.db.by_public_key[key] = a.node_record,
                         !.log = @ \o a.errors,
                         !.changed = a.changed \/ acc.changed]
        ELSE LET r == add_node(db, to_node_record(gnr))
             IN  IF r.ok
                 THEN [acc EXCEPT !.db = r.db, !.changed = TRUE]
                 ELSE [acc EXCEPT !.panicked = TRUE]

RECURSIVE FoldRecords(_, _, _)
FoldRecords(acc, node_records, i) ==
    IF i > Len(node_records) \/ acc.panicked THEN acc
    ELSE FoldRecords(IF is_not_invalid(node_records[i])
                     THEN handle_node_record(acc, node_records[i])
                     ELSE [acc EXCEPT !.log = Append(@, rejection(node_records[i]))],
                     node_records, i + 1)

(***************************************************************************)
(* GossipAcceptorReal::handle_node_records                                 *)
(***************************************************************************)
handle_node_records(db, gossip) ==
    FoldRecords([db |-> db, changed |-> FALSE, panicked |-> FALSE, log |-> <<>>], gossip, 1)

(* add_ip_neighbor without the test for an address. *)
add_ip_neighbor_any_record(acc, gnr) ==
    LET root_key == acc.db.this_node
    IN  IF gnr.inner.public_key # root_key
        THEN LET r == add_neighbor(acc.db, root_key, gnr.inner.public_key)
             IN  IF r.ok
                 THEN [acc EXCEPT !.db = r.db, !.changed = r.value \/ acc.changed]
                 ELSE [acc EXCEPT !.panicked = TRUE]
        ELSE acc

(***************************************************************************)
(* The closure of add_ip_neighbors for one record of the gossip, valid or  *)
(* not.  The expect on add_neighbor panics when the key is not in the      *)
(* database.                                                               *)
(***************************************************************************)
add_ip_neighbor(acc, gnr) ==
    LET root_key == acc.db.this_node
    IN  IF IsSome(gnr.inner.node_addr_opt) /\ gnr.inner.public_key # root_key
        THEN LET r == add_neighbor(acc.db, root_key, gnr.inner.public_key)
             IN  IF r.ok
                 THEN [acc EXCEPT !.db = r.db, !.changed = r.value \/ acc.changed]
                 ELSE [acc EXCEPT !.panicked = TRUE]
        ELSE acc

RECURSIVE FoldIpNeighbors(_, _, _)
FoldIpNeighbors(acc, node_records, i) ==
    IF i > Len(node_records) \/ acc.panicked THEN acc
    ELSE FoldIpNeighbors(add_ip_neighbor(acc, node_records[i]), node_records, i + 1)

(***************************************************************************)
(* GossipAcceptorReal::add_ip_neighbors                                    *)
(***************************************************************************)
add_ip_neighbors(db, gossip) ==
    LET acc == FoldIpNeighbors([db |-> db, changed |-> FALSE, panicked |-> FALSE], gossip, 1)
    IN  IF acc.panicked \/ ~acc.changed THEN acc
        ELSE LET r == increment_version(root(acc.db))
             IN  IF r.panicked THEN [acc EXCEPT !.panicked = TRUE]
                 ELSE [acc EXCEPT !.db.by_public_key[acc.db.this_node] = r.node_record]

(* handle that returns the mark of Phase B alone. *)
handle_dropping_phase_a_mark(db, gossip) ==
    LET a == handle_node_records(db, gossip)
    IN  IF a.panicked THEN a
        ELSE LET b == add_ip_neighbors(a.db, gossip)
             IN  [db |-> b.db, changed |-> b.changed, panicked |-> b.panicked, log |-> a.log]

(***************************************************************************)
(* GossipAcceptorReal::handle: both phases; a panic of either ends the     *)
(* call with the database as the panic left it and no return value.        *)
(***************************************************************************)
handle(db, gossip) ==
    LET a == handle_node_records(db, gossip)
    IN  IF a.panicked THEN a
        ELSE LET b == add_ip_neighbors(a.db, gossip)
             IN  [db |-> b.db, changed |-> b.changed \/ a.changed, panicked |-> b.panicked,
                  log |-> a.log]

(***************************************************************************)
(* Inputs.  A NodeAddr and a list of neighbors are drawn from the bounded  *)
(* sets, a version is the least or the greatest a u32 holds.  The          *)
(* signatures carried by a gossip record were made by its subject over the *)
(* record at its present version or at an earlier one (a record whose      *)
(* version was advanced without signing it again).                         *)
(***************************************************************************)
RootKey == BlankKey + 1
AllVersions == 0..MaxVersion
Versions == {0, MaxVersion}
OptNodeAddrs == {None} \cup {Some(a) : a \in NodeAddrs}
NeighborLists == UNION {[1..n -> Keys] : n \in 0..MaxNeighbors}

Inners ==
    [public_key : Keys, node_addr_opt : OptNodeAddrs, is_bootstrap_node : BOOLEAN,
     neighbors : NeighborLists, version : Versions]

SignaturesFor(inner) ==
    {NodeSignaturesFrom(inner.public_key, [inner EXCEPT !.version = v]) :
        v \in {w \in Versions : w <= inner.version}}

GossipNodeRecords ==
    UNION {{[inner |-> i, signatures |-> sg] : sg \in SignaturesFor(i)} : i \in Inners}

(* The records of a gossip of several records: no neighbors, not a        *)
(* bootstrap node, signed at their own version.                           *)
BatchRecords ==
    {r \in GossipNodeRecords :
        /\ r.inner.neighbors = <<>>
        /\ ~r.inner.is_bootstrap_node
        /\ r.signatures = NodeSignaturesFrom(r.inner.public_key, r.inner)}

Gossips ==
    {<<>>} \cup {<<r>> : r \in GossipNodeRecords}
           \cup {<<r1, r2>> : r1 \in BatchRecords, r2 \in BatchRecords}

(* The records handed to add_node: NodeRecord::new, unsigned or signed.   *)
NewNodeRecords ==
    UNION {{NodeRecordNew(k, a, b, None, v), sign(NodeRecordNew(k, a, b, None, v), k)} :
             <<k, a, b, v>> \in Keys \X OptNodeAddrs \X BOOLEAN \X Versions}

(***************************************************************************)
(* The CORES pipeline.  A byte string is a term <<tag, ...>> that tells    *)
(* how it was produced, so that a conversion applied to the bytes of       *)
(* another conversion fails as the parser or the cipher would.             *)
(***************************************************************************)
Ok(value) == [ok |-> TRUE, value |-> value]
Err == [ok |-> FALSE, value |-> <<>>]

(* The public keys of generated key pairs.                                *)
NodeKeys == RootKey..MaxKey

(* CryptDE::encode: fails on a malformed (blank) key.                     *)
encode(key, plain) ==
    IF key = BlankKey THEN Err ELSE Ok(<<"crypt", key, plain>>)

(* CryptDE::decode under the private key that belongs to own_key.         *)
decode(own_key, crypt) ==
    IF crypt[1] = "crypt" /\ crypt[2] = own_key THEN Ok(crypt[3]) ELSE Err

(* serde_cbor::ser::to_vec and serde_cbor::de::from_slice.                *)
to_vec(value) == Ok(<<"cbor", value>>)

from_slice(bytes) ==
    IF bytes[1] = "cbor" THEN Ok(bytes[2]) ELSE Err

(* JsonMasquerader::mask and try_unmask (the chunk of the UnmaskedChunk). *)
mask(data) == Ok(<<"json", data>>)

try_unmask(data) ==
    IF data[1] = "json" THEN Ok([chunk |-> data[2]]) ELSE Err

(* A Hop names the next relay, or none at the end of the route; in a      *)
(* Route it is serialized and encrypted under the key of the relay that   *)
(* is to read it.                                                          *)
Hops == [public_key : {None} \cup {Some(k) : k \in NodeKeys}]

EncryptedHops ==
    {encode(key, to_vec(hop).value).value : <<key, hop>> \in NodeKeys \X Hops}

Routes == UNION {[1..n -> EncryptedHops] : n \in 1..MaxHops}

(* Route::shift: decrypts the leading hop under the local private key.    *)
shift(route, own_key) ==
    IF route = <<>>
    THEN Err
    ELSE LET plain == decode(own_key, Head(route))
         IN  IF ~plain.ok
             THEN Err
             ELSE LET hop == from_slice(plain.value)
                  IN  IF ~hop.ok
                      THEN Err
                      ELSE Ok([next_hop |-> hop.value, route |-> Tail(route)])

PlainDatas == {<<"plain", n>> : n \in 1..MaxPayload}

IncipientCoresPackages ==
    [route : Routes, payload : PlainDatas, payload_destination_key : Keys]

LiveCoresPackageNew(route, payload) == [route |-> route, payload |-> payload]

(* LiveCoresPackage::from_incipient: the package and the key of the next  *)
(* hop; it has no error to return, a route it cannot shift is a panic.    *)
from_incipient(incipient, own_key) ==
    LET shifted == shift(incipient.route, own_key)
    IN  IF ~shifted.ok
        THEN [panicked |-> TRUE, lcp |-> <<>>, next_key |-> None]
        ELSE [panicked |-> FALSE,
              lcp |-> LiveCoresPackageNew(shifted.value.route, incipient.payload),
              next_key |-> shifted.value.next_hop.public_key]

ExpiredCoresPackageNew(remaining_route, payload) ==
    [remaining_route |-> remaining_route, payload |-> payload]

(* LiveCoresPackage::to_expired.                                          *)
to_expired(lcp, own_key) == ExpiredCoresPackageNew(lcp.route, lcp.payload)

(* The outcome of a call of a mock node: it returned Ok, returned Err or  *)
(* panicked.                                                               *)
Returns == {"ok", "err", "panic"}

(* DataHunk into Vec<u8>: the bytes of a hunk on the control stream, and   *)
(* DataHunk::from on the chunk of a frame.                                 *)
into(data_hunk) == [i \in 1..HunkBytes |-> [hunk |-> data_hunk, byte |-> i]]

DataHunkFrom(chunk) == chunk[1].hunk

(* DataHunkFramer: add_data appends to the buffer, take_frame takes the    *)
(* leading frame once all its bytes are there.                             *)
add_data(framer, data) == framer \o data

take_frame(framer) ==
    IF Len(framer) >= HunkBytes
    THEN [some |-> TRUE, chunk |-> SubSeq(framer, 1, HunkBytes),
          framer |-> SubSeq(framer, HunkBytes + 1, Len(framer))]
    ELSE [some |-> FALSE, chunk |-> <<>>, framer |-> framer]

(* SubstratumMockNode::transmit_data: the write on the control stream     *)
(* succeeds or fails; a DataHunk is reduced to its data.                  *)
transmit_data(stream, data_hunk, write_ok) ==
    IF write_ok
    THEN [ret |-> "ok", stream |-> stream \o into(data_hunk), wire |-> Some(data_hunk)]
    ELSE [ret |-> "err", stream |-> stream, wire |-> Some(data_hunk)]

(* SubstratumMockNode::transmit_package: every unwrap of an Err is a       *)
(* panic.                                                                  *)
transmit_package(stream, own_key, package, target_key, write_ok) ==
    LET from == from_incipient(package, own_key)
        lcp_data == to_vec(from.lcp)
        encrypted_data == encode(target_key, lcp_data.value)
        masked_data == mask(encrypted_data.value)
    IN  IF from.panicked \/ ~lcp_data.ok \/ ~encrypted_data.ok \/ ~masked_data.ok
        THEN [ret |-> "panic", stream |-> stream, wire |-> None]
        ELSE transmit_data(stream, masked_data.value, write_ok)

(* SubstratumNodeClient::send_chunk of the delegate.                       *)
send_chunk(chunk) == [ret |-> "ok", wire |-> Some(chunk)]

(* SubstratumCoresClient::transmit_package: the expect or unwrap of an Err *)
(* is a panic.                                                             *)
client_transmit_package(own_key, incipient_cores_package, recipient_key) ==
    LET from == from_incipient(incipient_cores_package, own_key)
        serialized_lcp == to_vec(from.lcp)
        encoded_serialized_package == encode(recipient_key, serialized_lcp.value)
        masqueraded == mask(encoded_serialized_package.value)
    IN  IF from.panicked \/ ~serialized_lcp.ok \/ ~encoded_serialized_package.ok
                         \/ ~masqueraded.ok
        THEN [ret |-> "panic", wire |-> None]
        ELSE send_chunk(masqueraded.value)

(* SubstratumCoresClient::masquerade_live_cores_package.                   *)
masquerade_live_cores_package(live_cores_package) ==
    LET serialized_lcp == to_vec(live_cores_package)
        masqueraded == mask(serialized_lcp.value)
    IN  IF ~serialized_lcp.ok \/ ~masqueraded.ok
        THEN [ret |-> "panic", wire |-> None]
        ELSE [ret |-> "ok", wire |-> Some(masqueraded.value)]

(* The live packages handed to the masquerading.                           *)
LiveCoresPackages ==
    {LiveCoresPackageNew(route, payload) :
        route \in {<<>>} \cup Routes, payload \in PlainDatas}

(* What a read on the control stream gives when no byte has arrived.      *)
Reads == {"timeout", "dead_stream", "eof"}

(* The bytes one read returns: one, or as many as the buffer takes.        *)
ReadLens == {1, MaxRead}

Least(a, b) == IF a <= b THEN a ELSE b

(* The loop of wait_for_data: a frame the framer holds is returned; with   *)
(* none the stream is read: of the arrived bytes it gives at most len to   *)
(* the framer, and when none has arrived the read times out (Err) or the   *)
(* stream is dead or closed (panic).                                       *)
RECURSIVE WaitLoop(_, _, _, _, _)
WaitLoop(framer, stream, arrived, len, read) ==
    LET framed_chunk == take_frame(framer)
        n == Least(len, Least(arrived, Len(stream)))
    IN  IF framed_chunk.some
        THEN [ret |-> "ok", data_hunk |-> DataHunkFrom(framed_chunk.chunk),
              framer |-> framed_chunk.framer, stream |-> stream]
        ELSE IF n = 0
        THEN [ret |-> IF read = "timeout" THEN "err" ELSE "panic",
              data_hunk |-> <<>>, framer |-> framer, stream |-> stream]
        ELSE WaitLoop(add_data(framer, SubSeq(stream, 1, n)),
                      SubSeq(stream, n + 1, Len(stream)), arrived - n, len, read)

(* wait_for_data that empties the framer when the read times out.          *)
wait_for_data_emptying_framer(framer, stream, arrived, len, read) ==
    LET r == WaitLoop(framer, stream, arrived, len, read)
    IN  IF r.ret = "err" THEN [r EXCEPT !.framer = <<>>] ELSE r

(* SubstratumMockNode::wait_for_data.                                      *)
wait_for_data(framer, stream, arrived, len, read) ==
    WaitLoop(framer, stream, arrived, len, read)

(* A variant of wait_for_package that decrypts what it received before    *)
(* unmasking it.                                                           *)
wait_for_package_decoding_first(framer, stream, own_key, arrived, len, read) ==
    LET waited == wait_for_data(framer, stream, arrived, len, read)
        decrypted_data == decode(own_key, waited.data_hunk)
        unmasked_data == try_unmask(decrypted_data.value)
        live_cores_package == from_slice(unmasked_data.value.chunk)
    IN  IF waited.ret # "ok"
        THEN [ret |-> waited.ret, lcp |-> None, waited |-> waited]
        ELSE IF ~decrypted_data.ok \/ ~unmasked_data.ok \/ ~live_cores_package.ok
        THEN [ret |-> "panic", lcp |-> None, waited |-> waited]
        ELSE [ret |-> "ok", lcp |-> Some(live_cores_package.value), waited |-> waited]

(* SubstratumMockNode::wait_for_package: `?` hands the Err of             *)
(* wait_for_data to the caller, every unwrap of an Err is a panic.        *)
wait_for_package(framer, stream, own_key, arrived, len, read) ==
    LET waited == wait_for_data(framer, stream, arrived, len, read)
        unmasked_data == try_unmask(waited.data_hunk)
        decrypted_data == decode(own_key, unmasked_data.value.chunk)
        live_cores_package == from_slice(decrypted_data.value)
    IN  IF waited.ret # "ok"
        THEN [ret |-> waited.ret, lcp |-> None, waited |-> waited]
        ELSE IF ~unmasked_data.ok \/ ~decrypted_data.ok \/ ~live_cores_package.ok
        THEN [ret |-> "panic", lcp |-> None, waited |-> waited]
        ELSE [ret |-> "ok", lcp |-> Some(live_cores_package.value), waited |-> waited]

(* Two mock nodes after start: the sender and the receiver with their key *)
(* pairs, the control stream from the one to the other (the bytes in      *)
(* flight), the receiver's framer, the package and the target key the     *)
(* sender was given and what transmit_package returned, what the          *)
(* receiver's last wait_for_package returned with the package it          *)
(* received, and the package after to_expired.  For the record: path, the *)
(* call that last made wire bytes, and wire, its bytes; sent, the hunks   *)
(* written to the stream; wait, the last call of wait_for_data with the   *)
(* framer and the stream it found and left and its return; delivered, the *)
(* hunks wait_for_data returned.                                           *)
CoresNew(sender, receiver) ==
    [sender |-> sender, receiver |-> receiver, stream |-> <<>>, framer |-> <<>>,
     package |-> None, target_key |-> BlankKey, transmitted |-> "none",
     waited |-> "none", live |-> None, expired |-> None,
     path |-> "none", wire |-> None, sent |-> <<>>, wait |-> None, delivered |-> <<>>]

(* No mock node is started.                                                *)
NoCores == CoresNew(BlankKey, BlankKey)

(***************************************************************************)
(* SubstratumMockNode::wait_for_startup.  connected holds the numbers of   *)
(* the attempts at which TcpStream::connect would succeed; the stream of   *)
(* an attempt is named by the attempt.  The loop is left with the stream   *)
(* of a successful attempt, or without one when the retries are used up.   *)
(***************************************************************************)
Retries == 10

RECURSIVE StartupLoop(_, _, _)
StartupLoop(retries, attempts, connected) ==
    IF attempts + 1 \in connected
    THEN [retries |-> retries, stream |-> Some([attempt |-> attempts + 1]),
          attempts |-> attempts + 1]
    ELSE IF retries - 1 <= 0
    THEN [retries |-> retries - 1, stream |-> None, attempts |-> attempts + 1]
    ELSE StartupLoop(retries - 1, attempts + 1, connected)

(* wait_for_startup that gives up once the retries are used up, whatever   *)
(* the last attempt gave.                                                  *)
wait_for_startup_counting_first(connected) ==
    LET left == StartupLoop(Retries, 0, connected)
    IN  IF left.retries <= 0 \/ left.attempts = Retries
        THEN [ret |-> "panic", message |-> "Timed out trying to contact", stream |-> None,
              attempts |-> left.attempts]
        ELSE [ret |-> "ok", message |-> "", stream |-> left.stream,
              attempts |-> left.attempts]

wait_for_startup(connected) ==
    LET left == StartupLoop(Retries, 0, connected)
    IN  IF left.retries <= 0
        THEN [ret |-> "panic", message |-> "Timed out trying to contact", stream |-> None,
              attempts |-> left.attempts]
        ELSE IF left.stream = None
        THEN [ret |-> "panic", message |-> "unwrap on None", stream |-> None,
              attempts |-> left.attempts]
        ELSE [ret |-> "ok", message |-> "", stream |-> left.stream,
              attempts |-> left.attempts]

(* wait_for_startup is not called yet.                                     *)
NoStartup ==
    [called |-> FALSE, connected |-> {}, ret |-> "none", message |-> "", stream |-> None,
     attempts |-> 0]

vars ==
    <<this_node, by_public_key, by_ip_addr, panicked, steps, call, pre, ret, overflow_checks,
      cores, startup>>

Db == [this_node |-> this_node, by_public_key |-> by_public_key, by_ip_addr |-> by_ip_addr]

Call(op, gossip, node, from, to) ==
    [op |-> op, gossip |-> gossip, node |-> node, from |-> from, to |-> to]

Ret(ok, value, err, log) == [ok |-> ok, value |-> value, err |-> err, log |-> log]

SetDb(db) ==
    /\ this_node' = db.this_node
    /\ by_public_key' = db.by_public_key
    /\ by_ip_addr' = db.by_ip_addr

(* The owner of the database makes one call at a time, until it panics;   *)
(* a run of the model makes at most MaxOps calls.                         *)
Running == ~panicked /\ steps < MaxOps

InitDb ==
    \E node_addr \in {a \in NodeAddrs : a.ip_addr = 1 /\ a.ports = 1} :
        LET db == NeighborhoodDatabaseNew(RootKey, node_addr, FALSE)
        IN  /\ overflow_checks \in BOOLEAN
            /\ this_node = db.this_node
            /\ by_public_key = db.by_public_key
            /\ by_ip_addr = db.by_ip_addr
            /\ panicked = FALSE
            /\ steps = 0
            /\ call = Call("new", <<>>, None, RootKey, RootKey)
            /\ pre = db
            /\ ret = Ret(TRUE, TRUE, <<>>, <<>>)

Init == InitDb /\ cores = NoCores /\ startup = NoStartup

AddNode(node_record) ==
    LET r == add_node(Db, node_record)
    IN  /\ Running
        /\ SetDb(r.db)
        /\ call' = Call("add_node", <<>>, Some(node_record), BlankKey, BlankKey)
        /\ pre' = Db
        /\ ret' = Ret(r.ok, r.ok, r.err, <<>>)
        /\ steps' = steps + 1
        /\ UNCHANGED <<panicked, overflow_checks, cores, startup>>

AddNeighbor(node_key, new_neighbor) ==
    LET r == add_neighbor(Db, node_key, new_neighbor)
    IN  /\ Running
        /\ SetDb(r.db)
        /\ call' = Call("add_neighbor", <<>>, None, node_key, new_neighbor)
        /\ pre' = Db
        /\ ret' = Ret(r.ok, r.value, r.err, <<>>)
        /\ steps' = steps + 1
        /\ UNCHANGED <<panicked, overflow_checks, cores, startup>>

RemoveNeighbor(node_key) ==
    LET r == remove_neighbor(Db, node_key)
    IN  /\ Running
        /\ SetDb(r.db)
        /\ call' = Call("remove_neighbor", <<>>, None, node_key, node_key)
        /\ pre' = Db
        /\ ret' = Ret(r.ok, r.value, r.err, <<>>)
        /\ steps' = steps + 1
        /\ UNCHANGED <<panicked, overflow_checks, cores, startup>>

Handle(gossip) ==
    LET r == handle(Db, gossip)
    IN  /\ Running
        /\ SetDb(r.db)
        /\ call' = Call("handle", gossip, None, BlankKey, BlankKey)
        /\ pre' = Db
        /\ ret' = Ret(~r.panicked, r.changed, <<>>, r.log)
        /\ panicked' = r.panicked
        /\ steps' = steps + 1
        /\ UNCHANGED <<overflow_checks, cores, startup>>

Next ==
    \/ \E node_record \in NewNodeRecords : AddNode(node_record)
    \/ \E node_key \in Keys, new_neighbor \in Keys : AddNeighbor(node_key, new_neighbor)
    \/ \E node_key \in Keys : RemoveNeighbor(node_key)
    \/ \E gossip \in Gossips : Handle(gossip)

Spec == Init /\ [][Next]_vars

(***************************************************************************)
(* The merge of gossip into a database as the tests of the acceptor build  *)
(* it: new, then add_node of a neighbor and, in some, add_neighbor from    *)
(* the root to it.  The owner may remove a neighbor, and then handles one  *)
(* gossip, of one or two records about the root and the neighbor at every  *)
(* version.                                                                *)
(***************************************************************************)
NeighborKey == RootKey + 1

TestNeighbors ==
    {sign(NodeRecordNew(NeighborKey, a, FALSE, None, 0), NeighborKey) : a \in OptNodeAddrs}

TestDatabases ==
    LET db == NeighborhoodDatabaseNew(RootKey, [ip_addr |-> 1, ports |-> 1], FALSE)
    IN  {db} \cup {add_node(db, r).db : r \in TestNeighbors}
             \cup {add_neighbor(add_node(db, r).db, RootKey, NeighborKey).db : r \in TestNeighbors}

MergeInners ==
    [public_key : {RootKey, NeighborKey}, node_addr_opt : OptNodeAddrs,
     is_bootstrap_node : {FALSE}, neighbors : {<<>>, <<MaxKey>>}, version : AllVersions]

MergeRecords ==
    UNION {{[inner |-> i,
             signatures |-> NodeSignaturesFrom(i.public_key, [i EXCEPT !.version = v])] :
               v \in 0..i.version} : i \in MergeInners}

MergeGossips ==
    {<<r>> : r \in MergeRecords} \cup {<<r1, r2>> : r1 \in MergeRecords, r2 \in MergeRecords}

(* The gossips of one record signed at its own version: what a second peer sends. *)
PeerGossips ==
    {<<r>> : r \in {m \in MergeRecords : m.signatures = NodeSignaturesFrom(m.inner.public_key, m.inner)}}

InitMerge ==
    \E db \in TestDatabases :
        /\ overflow_checks \in BOOLEAN
        /\ this_node = db.this_node
        /\ by_public_key = db.by_public_key
        /\ by_ip_addr = db.by_ip_addr
        /\ panicked = FALSE
        /\ steps = 0
        /\ call = Call("new", <<>>, None, RootKey, RootKey)
        /\ pre = db
        /\ ret = Ret(TRUE, TRUE, <<>>, <<>>)
        /\ cores = NoCores
        /\ startup = NoStartup

NothingCalled == steps = 0

NoGossipHandled == call.op # "handle"

NextMerge ==
    \/ /\ NothingCalled
       /\ \E node_key \in {RootKey, NeighborKey} : RemoveNeighbor(node_key)
    \/ /\ NoGossipHandled
       /\ \E gossip \in MergeGossips : Handle(gossip)

SpecMerge == InitMerge /\ [][NextMerge]_vars

(***************************************************************************)
(* The CORES exchange: a mock node transmits one package to another, that  *)
(* waits for it and expires it; the bytes of the package arrive together   *)
(* or not before the read ends.  A cores client may make wire bytes        *)
(* instead.  The database is not touched.                                  *)
(***************************************************************************)
db_vars ==
    <<this_node, by_public_key, by_ip_addr, panicked, steps, call, pre, ret, overflow_checks>>

InitCores ==
    /\ InitDb
    /\ \E sender \in NodeKeys, receiver \in NodeKeys : cores = CoresNew(sender, receiver)
    /\ startup = NoStartup

TransmitPackage(package, target_key, write_ok) ==
    LET r == transmit_package(cores.stream, cores.sender, package, target_key, write_ok)
    IN  /\ cores' = [cores EXCEPT !.package = Some(package),
                                  !.target_key = target_key,
                                  !.transmitted = r.ret,
                                  !.stream = r.stream,
                                  !.path = "transmit_package",
                                  !.wire = r.wire,
                                  !.sent = IF r.ret = "ok" THEN @ \o r.wire ELSE @]
        /\ UNCHANGED <<db_vars, startup>>

(* A cores client with the sender's key pair transmits a package.          *)
ClientTransmitPackage(incipient_cores_package, recipient_key) ==
    LET r == client_transmit_package(cores.sender, incipient_cores_package, recipient_key)
    IN  /\ cores' = [cores EXCEPT !.path = "client_transmit_package", !.wire = r.wire]
        /\ UNCHANGED <<db_vars, startup>>

MasqueradeLiveCoresPackage(live_cores_package) ==
    LET r == masquerade_live_cores_package(live_cores_package)
    IN  /\ cores' = [cores EXCEPT !.path = "masquerade_live_cores_package", !.wire = r.wire]
        /\ UNCHANGED <<db_vars, startup>>

(* The sender writes a hunk of raw data, at most MaxHunks of them.         *)
TransmitData(data_hunk, write_ok) ==
    LET r == transmit_data(cores.stream, data_hunk, write_ok)
    IN  /\ Len(cores.sent) < MaxHunks
        /\ cores.waited # "panic"
        /\ cores' = [cores EXCEPT !.stream = r.stream,
                                  !.path = "transmit_data",
                                  !.wire = r.wire,
                                  !.sent = IF r.ret = "ok" THEN @ \o r.wire ELSE @]
        /\ UNCHANGED <<db_vars, startup>>

(* The record of a call of wait_for_data.                                  *)
Waited(op, read, waited) ==
    Some([op |-> op, framer |-> cores.framer, stream |-> cores.stream, read |-> read,
          ret |-> waited.ret, data_hunk |-> waited.data_hunk,
          framer_after |-> waited.framer, stream_after |-> waited.stream])

(* The receiver waits for raw data, as long as it has not panicked.        *)
WaitForData(arrived, len, read) ==
    LET r == wait_for_data(cores.framer, cores.stream, arrived, len, read)
    IN  /\ cores.waited # "panic"
        /\ cores' = [cores EXCEPT
                        !.waited = r.ret,
                        !.framer = r.framer,
                        !.stream = r.stream,
                        !.wait = Waited("wait_for_data", read, r),
                        !.delivered = IF r.ret = "ok" THEN Append(@, r.data_hunk) ELSE @]
        /\ UNCHANGED <<db_vars, startup>>

WaitForPackage(arrived, len, read) ==
    LET r == wait_for_package(cores.framer, cores.stream, cores.receiver, arrived, len, read)
    IN  /\ cores.waited \in {"none", "err"}
        /\ cores' = [cores EXCEPT
                        !.waited = r.ret,
                        !.live = r.lcp,
                        !.framer = r.waited.framer,
                        !.stream = r.waited.stream,
                        !.wait = Waited("wait_for_package", read, r.waited),
                        !.delivered = IF r.waited.ret = "ok"
                                      THEN Append(@, r.waited.data_hunk) ELSE @]
        /\ UNCHANGED <<db_vars, startup>>

(* wait_for_gossip: to_expired on the package wait_for_package returned.  *)
ToExpired ==
    /\ cores.waited = "ok"
    /\ IsSome(cores.live)
    /\ cores.expired = None
    /\ cores' = [cores EXCEPT
                    !.expired = Some(to_expired(Unwrap(cores.live), cores.receiver))]
    /\ UNCHANGED <<db_vars, startup>>

(* The sender transmits one package.                                      *)
NothingTransmitted == cores.transmitted = "none" /\ cores.path = "none"

(* The hunks of raw data: bytes that are no masked package, and a masked   *)
(* chunk that is no ciphertext.                                            *)
DataHunks == PlainDatas \cup {mask(d).value : d \in PlainDatas}

NextCores ==
    \/ /\ NothingTransmitted
       /\ \E package \in IncipientCoresPackages, target_key \in Keys, write_ok \in BOOLEAN :
             TransmitPackage(package, target_key, write_ok)
    \/ /\ NothingTransmitted
       /\ \E package \in IncipientCoresPackages, recipient_key \in Keys :
             ClientTransmitPackage(package, recipient_key)
    \/ /\ NothingTransmitted
       /\ \E live_cores_package \in LiveCoresPackages :
             MasqueradeLiveCoresPackage(live_cores_package)
    \/ \E arrived \in {0, HunkBytes}, read \in Reads :
          WaitForPackage(arrived, MaxRead, read)
    \/ ToExpired

SpecCores == InitCores /\ [][NextCores]_vars

(***************************************************************************)
(* The control stream: the sender writes hunks of raw data, the receiver   *)
(* waits for data or for a package.                                        *)
(***************************************************************************)
NextStream ==
    \/ \E data_hunk \in DataHunks, write_ok \in BOOLEAN : TransmitData(data_hunk, write_ok)
    \/ \E arrived \in 0..MaxArrived, len \in ReadLens, read \in Reads :
          WaitForData(arrived, len, read)
    \/ \E arrived \in 0..MaxArrived, len \in ReadLens, read \in Reads :
          WaitForPackage(arrived, len, read)

SpecStream == InitCores /\ [][NextStream]_vars

(***************************************************************************)
(* The start of a mock node: one call of wait_for_startup, the container   *)
(* answering at some of the attempts, the first MaxAttempts of them told   *)
(* apart.                                                                  *)
(***************************************************************************)
WaitForStartup(connected) ==
    LET r == wait_for_startup(connected)
    IN  /\ ~startup.called
        /\ startup' = [called |-> TRUE, connected |-> connected, ret |-> r.ret,
                       message |-> r.message, stream |-> r.stream, attempts |-> r.attempts]
        /\ UNCHANGED <<db_vars, cores>>

NextStartup == \E connected \in SUBSET (1..MaxAttempts) : WaitForStartup(connected)

SpecStartup == Init /\ [][NextStartup]_vars

(***************************************************************************)
(* Vocabulary of the properties.                                           *)
(***************************************************************************)
IsHandle == call.op = "handle"
Returned == IsHandle /\ ret.ok
Gossip == call.gossip
RecordIndices == 1..Len(Gossip)
KeyOf(i) == Gossip[i].inner.public_key

(* Phase A as it stands before the i-th record of the gossip is processed. *)
Before(i) ==
    FoldRecords([db |-> pre, changed |-> FALSE, panicked |-> FALSE, log |-> <<>>],
                SubSeq(Gossip, 1, i - 1), 1)

(* The valid records of the gossip that carry the key k. *)
ValidFor(k) == {i \in RecordIndices : is_not_invalid(Gossip[i]) /\ KeyOf(i) = k}

RootEdgeCreated ==
    \E k \in Keys : has_neighbor(Db, this_node, k) /\ ~has_neighbor(pre, pre.this_node, k)

(***************************************************************************)
(* C1: handle never panics on input data: every call runs both phases to   *)
(* completion and returns a boolean.                                       *)
(***************************************************************************)
C1_HandleNeverPanics == IsHandle => ret.ok

(***************************************************************************)
(* C2 as stated: if handle returns false, the database after the call is   *)
(* identical to the database before it.                                    *)
(***************************************************************************)
C2_FalseMeansIdentical == (Returned /\ ~ret.value) => Db = pre

(***************************************************************************)
(* C2 amended: if handle returns false, the database after the call is the *)
(* database before it except for stored versions: the key set, the IP      *)
(* index and every record's address, neighbors, signatures and bootstrap   *)
(* flag are the same, and a version that differs was raised to the version *)
(* of a valid gossip record for that key.                                  *)
(***************************************************************************)
C2_FalseMeansOnlyVersionsRaised ==
    (Returned /\ ~ret.value) =>
        /\ this_node = pre.this_node
        /\ by_ip_addr = pre.by_ip_addr
        /\ DOMAIN by_public_key = DOMAIN pre.by_public_key
        /\ \A k \in DOMAIN by_public_key :
              LET old == pre.by_public_key[k]
                  new == by_public_key[k]
              IN  /\ new = [old EXCEPT !.inner.version = new.inner.version]
                  /\ \/ new.inner.version = old.inner.version
                     \/ /\ new.inner.version > old.inner.version
                        /\ \E i \in ValidFor(k) : Gossip[i].inner.version = new.inner.version

C2_Witness ==
    /\ Returned /\ ~ret.value
    /\ \E k \in DOMAIN by_public_key :
          by_public_key[k].inner.version > pre.by_public_key[k].inner.version

(***************************************************************************)
(* C3: address immutability: a key whose stored record has an address      *)
(* before a handle call has the same address after it, whatever the        *)
(* gossip.                                                                 *)
(***************************************************************************)
C3_AddressImmutable ==
    IsHandle =>
        \A k \in DOMAIN pre.by_public_key :
            IsSome(pre.by_public_key[k].inner.node_addr_opt) =>
                by_public_key[k].inner.node_addr_opt = pre.by_public_key[k].inner.node_addr_opt

C3_Witness ==
    /\ Returned
    /\ \E i \in RecordIndices :
          /\ is_not_invalid(Gossip[i])
          /\ KeyOf(i) \in DOMAIN pre.by_public_key
          /\ IsSome(Gossip[i].inner.node_addr_opt)
          /\ IsSome(pre.by_public_key[KeyOf(i)].inner.node_addr_opt)
          /\ Gossip[i].inner.node_addr_opt # pre.by_public_key[KeyOf(i)].inner.node_addr_opt
          /\ by_public_key[KeyOf(i)].inner.node_addr_opt
                = pre.by_public_key[KeyOf(i)].inner.node_addr_opt

(***************************************************************************)
(* C4: a record that fails the validity filter is skipped: the call does   *)
(* to the database, and returns, exactly what it would for the gossip      *)
(* without the rejected records.                                           *)
(***************************************************************************)
C4_InvalidRecordsSkipped ==
    IsHandle =>
        LET r == handle(pre, SelectSeq(Gossip, is_not_invalid))
        IN  /\ Db = r.db
            /\ ret.ok = ~r.panicked
            /\ ret.value = r.changed

(***************************************************************************)
(* C5: when the gossip holds exactly one valid record for a key already in *)
(* the database and its version is higher than the stored one, then after  *)
(* handle the stored version, neighbor set and signatures are the          *)
(* incoming ones.  Stated for keys other than the root, whose record       *)
(* Phase B also changes.                                                   *)
(***************************************************************************)
C5_HigherVersionOverwrites ==
    Returned =>
        \A k \in DOMAIN pre.by_public_key \ {this_node} :
            \A i \in ValidFor(k) :
                (ValidFor(k) = {i} /\ Gossip[i].inner.version > pre.by_public_key[k].inner.version)
                => /\ by_public_key[k].inner.version = Gossip[i].inner.version
                   /\ Range(by_public_key[k].inner.neighbors) = Range(Gossip[i].inner.neighbors)
                   /\ by_public_key[k].signatures = Some(Gossip[i].signatures)

(***************************************************************************)
(* C6: processing a valid record whose key is in the database and whose    *)
(* version is not higher than the stored one leaves the stored version,    *)
(* neighbors and signatures as they were; and when the gossip is that      *)
(* record alone, no address is adopted and no root edge is created,        *)
(* handle returns false.                                                   *)
(***************************************************************************)
C6_Gated(i) ==
    /\ is_not_invalid(Gossip[i])
    /\ KeyOf(i) \in keys(Before(i).db)
    /\ Gossip[i].inner.version <= Before(i).db.by_public_key[KeyOf(i)].inner.version

C6_LowerOrEqualVersionBlocks ==
    IsHandle =>
        \A i \in RecordIndices :
            C6_Gated(i) =>
                LET old == Before(i).db.by_public_key[KeyOf(i)]
                    new == Before(i + 1).db.by_public_key[KeyOf(i)]
                IN  /\ new.inner.version = old.inner.version
                    /\ new.inner.neighbors = old.inner.neighbors
                    /\ new.signatures = old.signatures
                    /\ ( /\ Len(Gossip) = 1
                         /\ by_public_key[KeyOf(i)].inner.node_addr_opt
                               = pre.by_public_key[KeyOf(i)].inner.node_addr_opt
                         /\ ~RootEdgeCreated )
                       => /\ ret.ok /\ ~ret.value
                          /\ by_public_key[KeyOf(i)].inner.version = old.inner.version
                          /\ by_public_key[KeyOf(i)].inner.neighbors = old.inner.neighbors
                          /\ by_public_key[KeyOf(i)].signatures = old.signatures

C6_Witness ==
    /\ Returned /\ ~ret.value /\ Len(Gossip) = 1
    /\ C6_Gated(1)
    /\ Gossip[1].inner.version < pre.by_public_key[KeyOf(1)].inner.version
    /\ Range(Gossip[1].inner.neighbors) # Range(pre.by_public_key[KeyOf(1)].inner.neighbors)
    /\ by_public_key[KeyOf(1)].inner.neighbors = pre.by_public_key[KeyOf(1)].inner.neighbors

(***************************************************************************)
(* C7: a valid record that carries an address, whose key is in the         *)
(* database with no stored address when the record is processed, has its   *)
(* address stored, and the call, when it returns, returns true: whatever   *)
(* the relation between the incoming and the stored version.               *)
(***************************************************************************)
C7_Adopts(i) ==
    /\ is_not_invalid(Gossip[i])
    /\ IsSome(Gossip[i].inner.node_addr_opt)
    /\ KeyOf(i) \in keys(Before(i).db)
    /\ ~IsSome(Before(i).db.by_public_key[KeyOf(i)].inner.node_addr_opt)

C8_Admits(i) ==
    /\ is_not_invalid(Gossip[i])
    /\ KeyOf(i) \notin keys(Before(i).db)

C9_RootEdgeInduced ==
    Returned =>
        \A i \in RecordIndices :
            (IsSome(Gossip[i].inner.node_addr_opt) /\ KeyOf(i) # this_node)
                => has_neighbor(Db, this_node, KeyOf(i))

C9_Witness ==
    /\ Returned
    /\ \E i \in RecordIndices :
          /\ IsSome(Gossip[i].inner.node_addr_opt)
          /\ KeyOf(i) # this_node
          /\ KeyOf(i) \in DOMAIN pre.by_public_key
          /\ ~has_neighbor(pre, pre.this_node, KeyOf(i))
          /\ has_neighbor(Db, this_node, KeyOf(i))

(***************************************************************************)
(* C10: a handle call whose gossip has no record for the root's own key    *)
(* creates an edge from the root to a key only if some record of the       *)
(* gossip for that key carries an address.                                 *)
(***************************************************************************)
C10_NoRootEdgeWithoutAddress ==
    (IsHandle /\ \A i \in RecordIndices : KeyOf(i) # this_node) =>
        \A k \in Keys :
            (has_neighbor(Db, this_node, k) /\ ~has_neighbor(pre, pre.this_node, k))
                => \E i \in RecordIndices :
                      KeyOf(i) = k /\ IsSome(Gossip[i].inner.node_addr_opt)

C10_Witness ==
    /\ Returned /\ Len(Gossip) = 2
    /\ \A i \in RecordIndices : KeyOf(i) # this_node
    /\ \E i \in RecordIndices, j \in RecordIndices :
          /\ ~IsSome(Gossip[i].inner.node_addr_opt)
          /\ KeyOf(i) \in DOMAIN by_public_key
          /\ ~has_neighbor(Db, this_node, KeyOf(i))
          /\ has_neighbor(Db, this_node, KeyOf(j))
          /\ ~has_neighbor(pre, pre.this_node, KeyOf(j))

(***************************************************************************)
(* C11: when a handle call whose gossip has no record for the root's own   *)
(* key returns, the root's version is its version before the call plus one *)
(* if the call created at least one new root edge, whatever their number,  *)
(* and its version before the call otherwise.                              *)
(***************************************************************************)
NoRootRecord == \A i \in RecordIndices : KeyOf(i) # pre.this_node

RootVersionStep == IF RootEdgeCreated THEN 1 ELSE 0

C11_RootVersionBump ==
    (Returned /\ NoRootRecord) =>
        root(Db).inner.version = root(pre).inner.version + RootVersionStep

(***************************************************************************)
(* C12: IP index coherence: in every state of the database, every entry    *)
(* (ip -> key) of by_ip_addr points to a key of by_public_key whose record *)
(* has an address with that IP.                                            *)
(***************************************************************************)
C12_IpIndexCoherent ==
    \A ip \in DOMAIN by_ip_addr :
        /\ by_ip_addr[ip] \in DOMAIN by_public_key
        /\ IsSome(by_public_key[by_ip_addr[ip]].inner.node_addr_opt)
        /\ Unwrap(by_public_key[by_ip_addr[ip]].inner.node_addr_opt).ip_addr = ip

C12_Witness ==
    /\ call.op = "remove_neighbor" /\ ret.ok
    /\ call.from # this_node
    /\ IsSome(pre.by_public_key[call.from].inner.node_addr_opt)
    /\ Unwrap(pre.by_public_key[call.from].inner.node_addr_opt).ip_addr \in DOMAIN pre.by_ip_addr
    /\ Unwrap(pre.by_public_key[call.from].inner.node_addr_opt).ip_addr \notin DOMAIN by_ip_addr
    /\ DOMAIN by_ip_addr # {}

(***************************************************************************)
(* C13: lookup by IP is complete: in every state of the database, for      *)
(* every record that has an address, node_by_ip of the address's IP is     *)
(* that record.                                                            *)
(***************************************************************************)
C13_LookupByIpComplete ==
    \A k \in DOMAIN by_public_key :
        IsSome(by_public_key[k].inner.node_addr_opt) =>
            node_by_ip(Db, Unwrap(by_public_key[k].inner.node_addr_opt).ip_addr)
                = Some(by_public_key[k])

(***************************************************************************)
(* C14: no two records share an IP: in every state of the database there   *)
(* are no two distinct keys whose records have addresses with the same IP. *)
(***************************************************************************)
C14_NoSharedIp ==
    \A k1 \in DOMAIN by_public_key, k2 \in DOMAIN by_public_key :
        ( /\ k1 # k2
          /\ IsSome(by_public_key[k1].inner.node_addr_opt)
          /\ IsSome(by_public_key[k2].inner.node_addr_opt) )
        => Unwrap(by_public_key[k1].inner.node_addr_opt).ip_addr
             # Unwrap(by_public_key[k2].inner.node_addr_opt).ip_addr

(***************************************************************************)
(* C15: root presence: in every state of the database node_by_key of the   *)
(* root key resolves, also after remove_neighbor on the root key itself.   *)
(***************************************************************************)
C15_RootPresent ==
    /\ this_node \in DOMAIN by_public_key
    /\ IsSome(node_by_key(Db, this_node))
    /\ Unwrap(node_by_key(Db, this_node)).inner.public_key = this_node

C15_Witness ==
    /\ call.op = "remove_neighbor" /\ ret.ok
    /\ call.from = this_node
    /\ ~IsSome(by_public_key[this_node].inner.node_addr_opt)
    /\ IsSome(pre.by_public_key[this_node].inner.node_addr_opt)

(***************************************************************************)
(* C16: no self-neighbor: in every state of the database no record's       *)
(* neighbors list contains the record's own key.                           *)
(***************************************************************************)
C16_NoSelfNeighbor ==
    \A k \in DOMAIN by_public_key : k \notin Range(by_public_key[k].inner.neighbors)

(***************************************************************************)
(* C17: version monotonicity: for every key present before a handle call,  *)
(* the root included, the stored version after the call is greater than or *)
(* equal to the stored version before it.                                  *)
(***************************************************************************)
C17_VersionMonotonic ==
    IsHandle =>
        \A k \in DOMAIN pre.by_public_key :
            by_public_key[k].inner.version >= pre.by_public_key[k].inner.version

(***************************************************************************)
(* C18: the changed flag is the disjunction of all marks: when handle      *)
(* returns, it returns true if the processing of some record of the gossip *)
(* admitted a record, adopted an address, or replaced a neighbors list or  *)
(* signatures, or if a new root edge was created, whatever the records     *)
(* before and after.                                                       *)
(***************************************************************************)
Marked(i) ==
    LET b == Before(i).db
        a == Before(i + 1).db
    IN  \/ keys(a) # keys(b)
        \/ \E k \in keys(b) :
              \/ a.by_public_key[k].inner.node_addr_opt # b.by_public_key[k].inner.node_addr_opt
              \/ a.by_public_key[k].inner.neighbors # b.by_public_key[k].inner.neighbors
              \/ a.by_public_key[k].signatures # b.by_public_key[k].signatures

NothingNew ==
    \A i \in RecordIndices :
        /\ KeyOf(i) \in keys(pre)
        /\ Gossip[i].inner.version = pre.by_public_key[KeyOf(i)].inner.version
        /\ \/ Gossip[i].inner.node_addr_opt = None
           \/ Gossip[i].inner.node_addr_opt = pre.by_public_key[KeyOf(i)].inner.node_addr_opt
        /\ (IsSome(Gossip[i].inner.node_addr_opt) /\ KeyOf(i) # pre.this_node)
              => has_neighbor(pre, pre.this_node, KeyOf(i))

C19_NothingNewNotReported ==
    (IsHandle /\ NothingNew) => (ret.ok /\ ~ret.value /\ Db = pre)

C19_Witness ==
    /\ Returned /\ ~ret.value /\ NothingNew
    /\ \E i \in RecordIndices :
          /\ IsSome(Gossip[i].inner.node_addr_opt)
          /\ KeyOf(i) # this_node
          /\ is_not_invalid(Gossip[i])

(***************************************************************************)
(* C20: a newer version alone is recorded but not reported: processing a   *)
(* valid record for a known key whose version is higher than the stored    *)
(* one, whose neighbor set and signatures are the stored ones and whose    *)
(* address is not adopted stores the incoming version and marks no change; *)
(* when the gossip is that record alone and no root edge is created,       *)
(* handle returns false and the stored version is the incoming one.        *)
(***************************************************************************)
C20_NewerOnly(i) ==
    /\ is_not_invalid(Gossip[i])
    /\ KeyOf(i) \in keys(Before(i).db)
    /\ LET stored == Before(i).db.by_public_key[KeyOf(i)]
       IN  /\ Gossip[i].inner.version > stored.inner.version
           /\ Range(Gossip[i].inner.neighbors) = Range(stored.inner.neighbors)
           /\ Some(Gossip[i].signatures) = stored.signatures
           /\ ~(IsSome(Gossip[i].inner.node_addr_opt) /\ ~IsSome(stored.inner.node_addr_opt))

C20_NewerVersionRecordedNotReported ==
    IsHandle =>
        \A i \in RecordIndices :
            C20_NewerOnly(i) =>
                /\ Before(i + 1).db.by_public_key[KeyOf(i)].inner.version = Gossip[i].inner.version
                /\ Before(i + 1).changed = Before(i).changed
                /\ (Len(Gossip) = 1 /\ ~RootEdgeCreated)
                      => /\ ret.ok /\ ~ret.value
                         /\ by_public_key[KeyOf(i)].inner.version = Gossip[i].inner.version

C20_Witness ==
    /\ Returned /\ ~ret.value /\ Len(Gossip) = 1
    /\ C20_NewerOnly(1)
    /\ KeyOf(1) # this_node
    /\ by_public_key[KeyOf(1)].inner.version > pre.by_public_key[KeyOf(1)].inner.version
    /\ by_public_key[KeyOf(1)].inner.version = Gossip[1].inner.version

(***************************************************************************)
(* C21: add_node of a record whose key is in the database fails with       *)
(* NodeKeyCollision(key) and leaves the database as it was: the stored     *)
(* record of that key and the IP index, the entry of the rejected record's *)
(* IP included.                                                            *)
(***************************************************************************)
IsAddNode == call.op = "add_node"
AddedRecord == Unwrap(call.node)

C21_AddNodeCollision ==
    (IsAddNode /\ AddedRecord.inner.public_key \in keys(pre)) =>
        /\ ~ret.ok
        /\ ret.err = <<"NodeKeyCollision", AddedRecord.inner.public_key>>
        /\ Db = pre

C21_Witness ==
    /\ IsAddNode /\ ~ret.ok
    /\ AddedRecord.inner.public_key \in keys(pre)
    /\ IsSome(AddedRecord.inner.node_addr_opt)
    /\ AddedRecord.inner.node_addr_opt
          # pre.by_public_key[AddedRecord.inner.public_key].inner.node_addr_opt
    /\ Unwrap(AddedRecord.inner.node_addr_opt).ip_addr \notin DOMAIN by_ip_addr

(***************************************************************************)
(* C22: add_neighbor(from, to) fails with NodeKeyNotFound when from or to  *)
(* is not in the database, naming the absent key and naming `to` when both *)
(* are absent, and then changes nothing.                                   *)
(***************************************************************************)
IsAddNeighbor == call.op = "add_neighbor"

C22_AddNeighborKeyNotFound ==
    (IsAddNeighbor /\ (call.from \notin keys(pre) \/ call.to \notin keys(pre))) =>
        /\ ~ret.ok
        /\ ret.err = <<"NodeKeyNotFound", IF call.to \notin keys(pre) THEN call.to ELSE call.from>>
        /\ Db = pre

C22_Witness ==
    /\ IsAddNeighbor /\ ~ret.ok
    /\ call.from \notin keys(pre) /\ call.to \notin keys(pre)
    /\ call.from # call.to
    /\ ret.err = <<"NodeKeyNotFound", call.to>>

(***************************************************************************)
(* C23: add_neighbor(from, to) with both keys in the database returns      *)
(* Ok(true) iff has_neighbor(from, to) was false; afterwards               *)
(* has_neighbor(from, to) is true; `to` occurs in from's list once more    *)
(* than before when true was returned; and nothing else changes: from's    *)
(* list is the old one with `to` appended or the old one, and to's list,   *)
(* every other record, all versions and the IP index are untouched.        *)
(***************************************************************************)
Occurrences(s, x) == Cardinality({i \in 1..Len(s) : s[i] = x})

C23_AddNeighborDirectedEdge ==
    (IsAddNeighbor /\ call.from \in keys(pre) /\ call.to \in keys(pre)) =>
        LET old == pre.by_public_key[call.from].inner.neighbors
            new == by_public_key[call.from].inner.neighbors
        IN  /\ ret.ok
            /\ ret.value = ~has_neighbor(pre, call.from, call.to)
            /\ has_neighbor(Db, call.from, call.to)
            /\ Occurrences(new, call.to)
                  = Occurrences(old, call.to) + (IF ret.value THEN 1 ELSE 0)
            /\ new = IF ret.value THEN Append(old, call.to) ELSE old
            /\ Db = [pre EXCEPT !.by_public_key[call.from].inner.neighbors = new]

C23_Witness ==
    /\ IsAddNeighbor /\ ret.ok /\ ret.value
    /\ call.from # call.to
    /\ has_neighbor(Db, call.from, call.to)
    /\ ~has_neighbor(Db, call.to, call.from)
    /\ by_public_key[call.to] = pre.by_public_key[call.to]

(***************************************************************************)
(* C24: remove_neighbor(K) for a key K in the database returns Ok(true)    *)
(* iff the root had an edge to K; afterwards has_neighbor(root, K) is      *)
(* false, K has no address, node_by_ip of K's former IP is None, the       *)
(* record of K still exists, and every other record keeps its address and, *)
(* if node_by_ip found it before, is still found by node_by_ip.            *)
(***************************************************************************)
IsRemoveNeighbor == call.op = "remove_neighbor"
Removed == call.from

FoundByIp(db, k) ==
    /\ IsSome(db.by_public_key[k].inner.node_addr_opt)
    /\ node_by_ip(db, Unwrap(db.by_public_key[k].inner.node_addr_opt).ip_addr)
          = Some(db.by_public_key[k])

C24_RemoveNeighborEffects ==
    (IsRemoveNeighbor /\ Removed \in keys(pre)) =>
        /\ ret.ok
        /\ ret.value = has_neighbor(pre, pre.this_node, Removed)
        /\ ~has_neighbor(Db, this_node, Removed)
        /\ Removed \in keys(Db)
        /\ by_public_key[Removed].inner.node_addr_opt = None
        /\ IsSome(pre.by_public_key[Removed].inner.node_addr_opt)
              => node_by_ip(Db, Unwrap(pre.by_public_key[Removed].inner.node_addr_opt).ip_addr)
                   = None
        /\ \A k \in keys(pre) \ {Removed} :
              /\ by_public_key[k].inner.node_addr_opt = pre.by_public_key[k].inner.node_addr_opt
              /\ FoundByIp(pre, k) => FoundByIp(Db, k)

(***************************************************************************)
(* C25: remove_neighbor of a key that is not in the database returns the   *)
(* error 'could not remove nonexistent neighbor by public key: <key>' and  *)
(* leaves the database as it was.                                          *)
(***************************************************************************)
C25_RemoveNeighborUnknownKey ==
    (IsRemoveNeighbor /\ Removed \notin keys(pre)) =>
        /\ ~ret.ok
        /\ ret.err = <<"could not remove nonexistent neighbor by public key", Removed>>
        /\ Db = pre

C25_Witness ==
    /\ IsRemoveNeighbor /\ ~ret.ok
    /\ Removed \notin keys(pre)
    /\ has_neighbor(pre, pre.this_node, Removed)
    /\ has_neighbor(Db, this_node, Removed)
    /\ DOMAIN by_ip_addr # {}

(***************************************************************************)
(* C26: set_node_addr is one-shot: for every record of the database and    *)
(* every address, on a record with no address it stores the address and    *)
(* returns Ok; on a record with an address, equal to the argument or not,  *)
(* it returns NodeAddrAlreadySet(stored address) and leaves the record as  *)
(* it was; and after unset_node_addr it succeeds again.                    *)
(***************************************************************************)
C26_SetNodeAddrOneShot ==
    \A k \in DOMAIN by_public_key, node_addr \in NodeAddrs :
        LET node_record == by_public_key[k]
            r == set_node_addr(node_record, node_addr)
            again == set_node_addr(unset_node_addr(r.node_record), node_addr)
        IN  /\ node_record.inner.node_addr_opt = None
                  => /\ r.ok
                     /\ r.node_record = [node_record EXCEPT !.inner.node_addr_opt = Some(node_addr)]
            /\ IsSome(node_record.inner.node_addr_opt)
                  => /\ ~r.ok
                     /\ r.err = <<"NodeAddrAlreadySet", Unwrap(node_record.inner.node_addr_opt)>>
                     /\ r.node_record = node_record
            /\ again.ok
            /\ again.node_record.inner.node_addr_opt = Some(node_addr)

C26_Witness ==
    /\ Returned
    /\ pre.by_public_key[pre.this_node].inner.node_addr_opt = None
    /\ \E i \in RecordIndices :
          /\ KeyOf(i) = this_node
          /\ IsSome(Gossip[i].inner.node_addr_opt)
          /\ by_public_key[this_node].inner.node_addr_opt = Gossip[i].inner.node_addr_opt
          /\ ~set_node_addr(by_public_key[this_node], Unwrap(Gossip[i].inner.node_addr_opt)).ok

(***************************************************************************)
(* C27: the CORES pipeline round trip: for an incipient package whose      *)
(* first hop the sender can decrypt and whose recipient key, under which   *)
(* the sender encrypts, is the receiver's public key, transmit_package     *)
(* does not panic; once the receiver has taken the bytes from the stream,  *)
(* wait_for_package has returned the live package from_incipient made of   *)
(* it, and to_expired on that gives the rest of the route with the payload *)
(* bytes of the incipient package.                                         *)
(***************************************************************************)
Package == Unwrap(cores.package)

FirstHopDecryptable == shift(Package.route, cores.sender).ok

RecipientIsReceiver ==
    /\ Package.payload_destination_key = cores.receiver
    /\ cores.target_key = Package.payload_destination_key

Received == cores.transmitted = "ok" /\ cores.stream = <<>>

C27_CoresRoundTrip ==
    (IsSome(cores.package) /\ FirstHopDecryptable /\ RecipientIsReceiver) =>
        /\ cores.transmitted # "panic"
        /\ Received =>
              /\ cores.waited = "ok"
              /\ cores.live = Some(from_incipient(Package, cores.sender).lcp)
              /\ IsSome(cores.expired) =>
                    /\ Unwrap(cores.expired).payload = Package.payload
                    /\ Unwrap(cores.expired).remaining_route = Tail(Package.route)

C27_Witness ==
    /\ IsSome(cores.package)
    /\ FirstHopDecryptable
    /\ RecipientIsReceiver
    /\ Received
    /\ IsSome(cores.expired)
    /\ Len(Package.route) = MaxHops
    /\ cores.sender # cores.receiver

(***************************************************************************)
(* C28: the IP-change ERROR is logged exactly when an IP change is         *)
(* attempted: while a valid record for a known key is processed, the ERROR *)
(* is logged iff the record and the stored record both carry addresses and *)
(* the two addresses differ.                                               *)
(***************************************************************************)
LoggedBy(i) ==
    SubSeq(Before(i + 1).log, Len(Before(i).log) + 1, Len(Before(i + 1).log))

C28_IpChangeLoggedIffAttempted ==
    IsHandle =>
        \A i \in RecordIndices :
            (is_not_invalid(Gossip[i]) /\ KeyOf(i) \in keys(Before(i).db)) =>
                LET stored == Before(i).db.by_public_key[KeyOf(i)].inner.node_addr_opt
                    incoming == Gossip[i].inner.node_addr_opt
                IN  (LoggedBy(i) # <<>>)
                        <=> (IsSome(incoming) /\ IsSome(stored) /\ incoming # stored)

(***************************************************************************)
(* C29: the root record stays correctly signed: in every state of the      *)
(* database the root's signatures are NodeSignatures::from over the root's *)
(* inner record as it stands.                                              *)
(***************************************************************************)
C29_RootCorrectlySigned ==
    root(Db).signatures = Some(NodeSignaturesFrom(this_node, root(Db).inner))

(***************************************************************************)
(* C30: handle only adds to the root's neighbor list and does not change   *)
(* what the root knows about itself: every neighbor of the root before the *)
(* call is a neighbor of the root after it, and the root's signatures and  *)
(* address are the same, whatever the gossip.                              *)
(***************************************************************************)
C30_RootOnlyGainsNeighbors ==
    IsHandle =>
        /\ \A k \in Keys :
              has_neighbor(pre, pre.this_node, k) => has_neighbor(Db, this_node, k)
        /\ root(Db).signatures = root(pre).signatures
        /\ root(Db).inner.node_addr_opt = root(pre).inner.node_addr_opt

(***************************************************************************)
(* C31: records are never destroyed: no call takes a key out of the        *)
(* database, and after handle the keys are those before the call and those *)
(* of the gossip records that passed the validity filter.                  *)
(***************************************************************************)
C31_RecordsNeverDestroyed ==
    /\ keys(pre) \subseteq keys(Db)
    /\ IsHandle =>
          keys(Db) = keys(pre) \cup {KeyOf(i) : i \in {j \in RecordIndices : is_not_invalid(Gossip[j])}}

C31_Witness ==
    /\ Returned
    /\ \E i \in RecordIndices, j \in RecordIndices :
          /\ is_not_invalid(Gossip[i])
          /\ KeyOf(i) \notin keys(pre)
          /\ KeyOf(i) \in keys(Db)
          /\ ~is_not_invalid(Gossip[j])
          /\ KeyOf(j) \notin keys(Db)

(***************************************************************************)
(* C33: increment_version advances the version by exactly one from every   *)
(* value a record can hold, without a panic; when Phase B increments the   *)
(* root's version, the version after the call is the one Phase A left plus *)
(* one.                                                                    *)
(***************************************************************************)
C33_IncrementVersionExact ==
    /\ \A k \in keys(Db) :
          LET r == increment_version(by_public_key[k])
          IN  /\ ~r.panicked
              /\ r.node_record.inner.version = by_public_key[k].inner.version + 1
    /\ (Returned /\ RootEdgeCreated) =>
          root(Db).inner.version = root(handle_node_records(pre, Gossip).db).inner.version + 1

(***************************************************************************)
(* C32: re-introduction after local removal: when a handle call finds a    *)
(* key other than the root's as remove_neighbor leaves it (the record      *)
(* there, no address, no edge from the root) and the gossip carries a      *)
(* valid record for it with an address, the call returns true, the address *)
(* is stored, the edge from the root is there again and the root's version *)
(* is one more than before, whatever the version of the record.            *)
(***************************************************************************)
AsRemoved(db, k) ==
    /\ k \in keys(db)
    /\ k # db.this_node
    /\ remove_neighbor(db, k).db = db

Reintroduces(i) ==
    /\ is_not_invalid(Gossip[i])
    /\ AsRemoved(pre, KeyOf(i))
    /\ IsSome(Gossip[i].inner.node_addr_opt)

C32_ReintroductionAfterRemoval ==
    IsHandle =>
        \A i \in RecordIndices :
            Reintroduces(i) =>
                /\ ret.ok
                /\ ret.value
                /\ by_public_key[KeyOf(i)].inner.node_addr_opt = Gossip[i].inner.node_addr_opt
                /\ has_neighbor(Db, this_node, KeyOf(i))
                /\ root(Db).inner.version = root(pre).inner.version + 1

(***************************************************************************)
(* C37: handle is idempotent on repetition: after a handle call that       *)
(* returned, a second call with the same gossip returns false and leaves   *)
(* the database as the first call left it.                                 *)
(***************************************************************************)
Again == handle(Db, Gossip)

C37_HandleIdempotent ==
    Returned =>
        /\ ~Again.panicked
        /\ ~Again.changed
        /\ Again.db = Db

(***************************************************************************)
(* C38: the changed flag never over-reports: when handle returns true, the *)
(* database after the call differs from the one before in its key set, in *)
(* the address, the neighbors list or the signatures of some record, or in *)
(* the root's neighbors or version.                                        *)
(***************************************************************************)
RecordDiffers(k) ==
    \/ by_public_key[k].inner.node_addr_opt # pre.by_public_key[k].inner.node_addr_opt
    \/ by_public_key[k].inner.neighbors # pre.by_public_key[k].inner.neighbors
    \/ by_public_key[k].signatures # pre.by_public_key[k].signatures

C38_ChangedNeverOverReports ==
    (Returned /\ ret.value) =>
        \/ keys(Db) # keys(pre)
        \/ \E k \in keys(pre) : RecordDiffers(k)
        \/ root(Db).inner.version # root(pre).inner.version

(***************************************************************************)
(* C39: the order of two gossips does not affect keys or versions: when    *)
(* the gossip of the call and a gossip of a second peer are both handled   *)
(* to completion from the same database in either order, both orders leave *)
(* the same key set and, for every key but the root's, the same version:   *)
(* the greatest of the version stored before and the versions of the valid *)
(* records for the key in the two gossips.                                 *)
(***************************************************************************)
Greatest(S) == CHOOSE x \in S : \A y \in S : y <= x

ValidVersions(gossip, k) ==
    {gossip[i].inner.version :
        i \in {j \in DOMAIN gossip : is_not_invalid(gossip[j]) /\ gossip[j].inner.public_key = k}}

StoredVersions(db, k) ==
    IF k \in keys(db) THEN {db.by_public_key[k].inner.version} ELSE {}

BothOrders(g2) ==
    LET other == handle(pre, g2)
    IN  [then_g2 |-> handle(Db, g2), g2_first |-> other, g2_then |-> handle(other.db, Gossip)]

BothComplete(o) == ~o.then_g2.panicked /\ ~o.g2_first.panicked /\ ~o.g2_then.panicked

C39_OrderKeepsKeysAndVersions ==
    Returned =>
        \A g2 \in PeerGossips :
            LET o == BothOrders(g2)
            IN  BothComplete(o) =>
                    /\ keys(o.then_g2.db) = keys(o.g2_then.db)
                    /\ \A k \in keys(o.then_g2.db) \ {this_node} :
                          LET greatest == Greatest(StoredVersions(pre, k)
                                                      \cup ValidVersions(Gossip, k)
                                                      \cup ValidVersions(g2, k))
                          IN  /\ o.then_g2.db.by_public_key[k].inner.version = greatest
                              /\ o.g2_then.db.by_public_key[k].inner.version = greatest

C39_Witness ==
    /\ Returned
    /\ \E g2 \in PeerGossips :
          LET o == BothOrders(g2)
              k == g2[1].inner.public_key
          IN  /\ BothComplete(o)
              /\ k # this_node
              /\ k \notin keys(pre)
              /\ ValidVersions(Gossip, k) # {}
              /\ \A v \in ValidVersions(Gossip, k) : v > g2[1].inner.version
              /\ o.g2_first.db # Db
              /\ o.then_g2.db.by_public_key[k].inner.version = o.g2_then.db.by_public_key[k].inner.version

(***************************************************************************)
(* C34: every path that turns a live CORES package into wire bytes         *)
(* serializes, then encrypts, then masks: what the masquerader was handed  *)
(* (the chunk that unmasking the wire bytes gives back) is ciphertext,     *)
(* never the plain serialized package.                                     *)
(***************************************************************************)
Wire == Unwrap(cores.wire)

Masked == try_unmask(Wire).value.chunk

IsCiphertext(bytes) == bytes[1] = "crypt"

C34_MaskInputIsCiphertext ==
    IsSome(cores.wire) => try_unmask(Wire).ok /\ IsCiphertext(Masked)

(***************************************************************************)
(* C36: a failed unmask is not fatal on the receive path: when try_unmask  *)
(* fails on the data wait_for_package received, the receiver does not      *)
(* panic.                                                                  *)
(***************************************************************************)
LastWait == Unwrap(cores.wait)

PackageWaited == IsSome(cores.wait) /\ LastWait.op = "wait_for_package"

UnmaskFailed == LastWait.ret = "ok" /\ ~try_unmask(LastWait.data_hunk).ok

C36_FailedUnmaskNotFatal ==
    (PackageWaited /\ UnmaskFailed) => cores.waited # "panic"

(***************************************************************************)
(* C35: wait_for_data surfaces a read timeout as an error value and loses  *)
(* nothing: a call whose read times out returns a frame or Err and does    *)
(* not panic; a call that returns Err leaves in the framer the bytes it    *)
(* held and those the call read; a frame complete in the framer is         *)
(* returned without a read of the stream; and the hunks returned so far,   *)
(* followed by the bytes in the framer and in the stream, are the hunks    *)
(* written, in the order written.                                          *)
(***************************************************************************)
RECURSIVE BytesOf(_)
BytesOf(hunks) == IF hunks = <<>> THEN <<>> ELSE into(Head(hunks)) \o BytesOf(Tail(hunks))

IsPrefix(s, t) == Len(s) <= Len(t) /\ SubSeq(t, 1, Len(s)) = s

C35_TimeoutLosesNothing ==
    /\ BytesOf(cores.sent) = BytesOf(cores.delivered) \o cores.framer \o cores.stream
    /\ IsSome(cores.wait) =>
          /\ LastWait.read = "timeout" => LastWait.ret \in {"ok", "err"}
          /\ LastWait.ret = "err" =>
                /\ LastWait.read = "timeout"
                /\ IsPrefix(LastWait.framer, LastWait.framer_after)
                /\ LastWait.framer_after \o LastWait.stream_after
                      = LastWait.framer \o LastWait.stream
          /\ take_frame(LastWait.framer).some =>
                /\ LastWait.ret = "ok"
                /\ LastWait.data_hunk = DataHunkFrom(take_frame(LastWait.framer).chunk)
                /\ LastWait.stream_after = LastWait.stream

C35_Witness ==
    /\ IsSome(cores.wait)
    /\ LastWait.op = "wait_for_data"
    /\ LastWait.read = "timeout"
    /\ LastWait.ret = "err"
    /\ Len(cores.delivered) = 1
    /\ LastWait.framer # <<>>
    /\ Len(LastWait.framer) < Len(LastWait.framer_after)
    /\ cores.framer = LastWait.framer_after

(***************************************************************************)
(* C40: wait_for_startup ends after at most 10 connection attempts: it     *)
(* returns the stream of the first successful attempt, the 10th included,  *)
(* attempting no more, and it panics with the timed-out message exactly    *)
(* when all 10 attempts fail.                                              *)
(***************************************************************************)
Successes == startup.connected \cap (1..10)

FirstSuccess == CHOOSE n \in Successes : \A m \in Successes : n <= m

C40_StartupWithinTenAttempts ==
    startup.called =>
        /\ startup.attempts <= 10
        /\ startup.ret \in {"ok", "panic"}
        /\ Successes # {} =>
              /\ startup.ret = "ok"
              /\ startup.stream = Some([attempt |-> FirstSuccess])
              /\ startup.attempts = FirstSuccess
        /\ Successes = {} =>
              /\ startup.ret = "panic"
              /\ startup.message = "Timed out trying to contact"
              /\ startup.attempts = 10

C40_Witness ==
    /\ startup.called
    /\ startup.ret = "ok"
    /\ startup.attempts = 10
    /\ 11 \in startup.connected

====
